---- MODULE Spec2Model ----
(***************************************************************************)
(* Model of MongoDBLibrary/mongoquery.py (class MongoQuery): the text to   *)
(* document translation done by each keyword before it calls the pymongo   *)
(* driver.  Texts are sequences of one-character strings, so that the      *)
(* regular-expression rewriting, the literal grammar and the JSON grammar  *)
(* are computed character by character.                                    *)
(***************************************************************************)
EXTENDS Integers, Sequences, FiniteSets, TLC

(***************************************************************************)
(* Characters                                                              *)
(***************************************************************************)
UpperChars == <<"A","B","C","D","E","F","G","H","I","J","K","L","M",
                "N","O","P","Q","R","S","T","U","V","W","X","Y","Z">>
LowerChars == <<"a","b","c","d","e","f","g","h","i","j","k","l","m",
                "n","o","p","q","r","s","t","u","v","w","x","y","z">>
DigitChars == <<"0","1","2","3","4","5","6","7","8","9">>

Range(f) == {f[i] : i \in DOMAIN f}

IsDigitChar(c) == c \in Range(DigitChars)
IsWordChar(c) == c \in Range(UpperChars) \cup Range(LowerChars) \cup Range(DigitChars) \cup {"_"}
IsHexChar(c) == c \in Range(DigitChars) \cup {"a","b","c","d","e","f","A","B","C","D","E","F"}

\* str.lower() on one character
LowerChar(c) ==
    IF \E i \in DOMAIN UpperChars : UpperChars[i] = c
    THEN LowerChars[CHOOSE i \in DOMAIN UpperChars : UpperChars[i] = c]
    ELSE c

\* str.lower()
StrLower(s) == [i \in DOMAIN s |-> LowerChar(s[i])]

\* str.isdigit(): non-empty and every character a digit
StrIsDigit(s) == Len(s) > 0 /\ \A i \in DOMAIN s : IsDigitChar(s[i])

DigitVal(c) == (CHOOSE i \in DOMAIN DigitChars : DigitChars[i] = c) - 1

RECURSIVE DigitsToNat(_)
DigitsToNat(s) ==
    IF Len(s) = 0 THEN 0
    ELSE 10 * DigitsToNat(SubSeq(s, 1, Len(s) - 1)) + DigitVal(s[Len(s)])

RECURSIVE NatToDigits(_)
NatToDigits(n) ==
    IF n < 10 THEN <<DigitChars[n + 1]>>
    ELSE NatToDigits(n \div 10) \o <<DigitChars[(n % 10) + 1]>>

(***************************************************************************)
(* re.sub(r'\bWORD\b', repl, text, flags=re.IGNORECASE)                    *)
(***************************************************************************)
\* WordMatchAt without re.IGNORECASE: the letters agree exactly
WordMatchAtCaseSensitive(text, i, word) ==
    /\ i + Len(word) - 1 <= Len(text)
    /\ \A k \in 1..Len(word) : text[i + k - 1] = word[k]
    /\ (i = 1 \/ ~IsWordChar(text[i - 1]))
    /\ (i + Len(word) > Len(text) \/ ~IsWordChar(text[i + Len(word)]))

\* the pattern matches at position i: the letters agree ignoring case and
\* both ends are word boundaries
WordMatchAt(text, i, word) ==
    /\ i + Len(word) - 1 <= Len(text)
    /\ \A k \in 1..Len(word) : LowerChar(text[i + k - 1]) = word[k]
    /\ (i = 1 \/ ~IsWordChar(text[i - 1]))
    /\ (i + Len(word) > Len(text) \/ ~IsWordChar(text[i + Len(word)]))

RECURSIVE ReSubFrom(_, _, _, _)
ReSubFrom(text, i, word, repl) ==
    IF i > Len(text) THEN <<>>
    ELSE IF WordMatchAt(text, i, word)
         THEN repl \o ReSubFrom(text, i + Len(word), word, repl)
         ELSE <<text[i]>> \o ReSubFrom(text, i + 1, word, repl)

ReSub(word, repl, text) == ReSubFrom(text, 1, word, repl)

\* lines 22-25: the three substitutions, in the code's order
Normalize(text) ==
    LET f1 == ReSub(<<"f","a","l","s","e">>, <<"F","a","l","s","e">>, text)
        f2 == ReSub(<<"t","r","u","e">>, <<"T","r","u","e">>, f1)
    IN  ReSub(<<"n","u","l","l">>, <<"N","o","n","e">>, f2)

(***************************************************************************)
(* Values.  Every value is a record of the same shape, so that any two     *)
(* values can be compared: tag names the Python type, n holds an int (or   *)
(* 0/1 for a bool), s the characters of a str/bytes, items the elements of *)
(* a list/tuple/set or the pairs of a dict (a pair is a value tagged       *)
(* "pair" whose items are <<key, value>>).                                 *)
(***************************************************************************)
MkVal(t, n, s, items) == [tag |-> t, n |-> n, s |-> s, items |-> items]
NoneVal == MkVal("none", 0, <<>>, <<>>)
BoolVal(b) == MkVal("bool", IF b THEN 1 ELSE 0, <<>>, <<>>)
IntVal(n) == MkVal("int", n, <<>>, <<>>)
StrVal(s) == MkVal("str", 0, s, <<>>)
BytesVal(s) == MkVal("bytes", 0, s, <<>>)
FloatVal(s) == MkVal("float", 0, s, <<>>)
ListVal(items) == MkVal("list", 0, <<>>, items)
TupleVal(items) == MkVal("tuple", 0, <<>>, items)
SetVal(items) == MkVal("set", 0, <<>>, items)
PairVal(k, v) == MkVal("pair", 0, <<>>, <<k, v>>)
DictVal(pairs) == MkVal("dict", 0, <<>>, pairs)
EmptyDict == DictVal(<<>>)

PKey(p) == p.items[1]
PValue(p) == p.items[2]

\* Python's == on hashable values: bool and int compare as numbers
RECURSIVE PyKeyEq(_, _)
PyKeyEq(a, b) ==
    IF a.tag \in {"int", "bool"} /\ b.tag \in {"int", "bool"} THEN a.n = b.n
    ELSE IF a.tag = "tuple" /\ b.tag = "tuple"
         THEN /\ Len(a.items) = Len(b.items)
              /\ \A i \in DOMAIN a.items : PyKeyEq(a.items[i], b.items[i])
         ELSE a = b

\* hash(v) is defined
RECURSIVE Hashable(_)
Hashable(v) ==
    IF v.tag \in {"none", "bool", "int", "str", "bytes", "float", "oid"} THEN TRUE
    ELSE IF v.tag = "tuple" THEN \A i \in DOMAIN v.items : Hashable(v.items[i])
         ELSE FALSE

\* d[k] = v on an insertion-ordered dict: an existing key keeps its place
\* (and the key object first inserted), a new key goes to the end
DictPut(pairs, k, v) ==
    IF \E i \in DOMAIN pairs : PyKeyEq(PKey(pairs[i]), k)
    THEN [i \in DOMAIN pairs |->
            IF PyKeyEq(PKey(pairs[i]), k) THEN PairVal(PKey(pairs[i]), v) ELSE pairs[i]]
    ELSE Append(pairs, PairVal(k, v))

DictHas(pairs, k) == \E i \in DOMAIN pairs : PyKeyEq(PKey(pairs[i]), k)
DictGet(pairs, k) == PValue(pairs[CHOOSE i \in DOMAIN pairs : PyKeyEq(PKey(pairs[i]), k)])

\* dict(zip(keys, values)): the pairs inserted from left to right
RECURSIVE DictFromPairs(_, _)
DictFromPairs(pairs, acc) ==
    IF Len(pairs) = 0 THEN acc
    ELSE DictFromPairs(Tail(pairs), DictPut(acc, PKey(Head(pairs)), PValue(Head(pairs))))

(***************************************************************************)
(* Tokens of a literal text.  k is the kind ("op", "name", "num", "str",   *)
(* "err"), s the characters (the content, for a string), q the quote of a  *)
(* string ("'", "\"", or the quote tripled) and p its lower-cased prefix.  *)
(***************************************************************************)
MkTok(k, s, q, p) == [k |-> k, s |-> s, q |-> q, p |-> p]
ErrTok == MkTok("err", <<>>, "", <<>>)

OpChars == {"{", "}", "[", "]", "(", ")", ",", ":"}
QuoteChars == {"'", "\""}
StringPrefixes == {<<"b">>, <<"u">>, <<"r">>, <<"f">>, <<"b","r">>, <<"r","b">>,
                   <<"f","r">>, <<"r","f">>}

\* end of the run of word characters that starts at i
RECURSIVE WordEnd(_, _)
WordEnd(text, i) ==
    IF i < Len(text) /\ IsWordChar(text[i + 1]) THEN WordEnd(text, i + 1) ELSE i

IsTriple(text, i) ==
    i + 2 <= Len(text) /\ text[i + 1] = text[i] /\ text[i + 2] = text[i]

\* position of the closing quote of the string opened at i (0: unterminated)
CloseQuote(text, i) ==
    LET c == text[i]
        cands == IF IsTriple(text, i)
                 THEN {j \in (i + 3)..(Len(text) - 2) :
                          text[j] = c /\ text[j + 1] = c /\ text[j + 2] = c}
                 ELSE {j \in (i + 1)..Len(text) : text[j] = c}
    IN  IF cands = {} THEN 0 ELSE CHOOSE j \in cands : \A m \in cands : j <= m

\* the string token whose opening quote is at i, with the given prefix
StringTok(text, i, prefix) ==
    LET j == CloseQuote(text, i)
        triple == IsTriple(text, i)
        first == IF triple THEN i + 3 ELSE i + 1
    IN  IF j = 0 THEN ErrTok
        ELSE MkTok("str", SubSeq(text, first, j - 1),
                   IF triple THEN "triple" ELSE text[i], prefix)

StringEnd(text, i) ==
    LET j == CloseQuote(text, i)
    IN  IF j = 0 THEN Len(text) ELSE IF IsTriple(text, i) THEN j + 2 ELSE j

RECURSIVE Tokens(_, _)
Tokens(text, i) ==
    IF i > Len(text) THEN <<>>
    ELSE LET c == text[i] IN
         IF c = " " THEN Tokens(text, i + 1)
         ELSE IF c \in OpChars THEN <<MkTok("op", <<c>>, "", <<>>)>> \o Tokens(text, i + 1)
         ELSE IF c \in QuoteChars
              THEN <<StringTok(text, i, <<>>)>> \o Tokens(text, StringEnd(text, i) + 1)
         ELSE IF IsWordChar(c)
              THEN LET e == WordEnd(text, i)
                       w == SubSeq(text, i, e)
                   IN  IF IsDigitChar(c)
                       THEN <<MkTok("num", w, "", <<>>)>> \o Tokens(text, e + 1)
                       ELSE IF /\ e < Len(text)
                               /\ text[e + 1] \in QuoteChars
                               /\ StrLower(w) \in StringPrefixes
                            THEN <<StringTok(text, e + 1, StrLower(w))>>
                                 \o Tokens(text, StringEnd(text, e + 1) + 1)
                            ELSE <<MkTok("name", w, "", <<>>)>> \o Tokens(text, e + 1)
         ELSE <<ErrTok>> \o Tokens(text, i + 1)

IsOp(toks, p, c) == p <= Len(toks) /\ toks[p].k = "op" /\ toks[p].s = <<c>>

\* parse results: ok, the value, and the position after it
MkParse(v, pos) == [ok |-> TRUE, val |-> v, pos |-> pos]
BadParse == [ok |-> FALSE, val |-> NoneVal, pos |-> 0]

(***************************************************************************)
(* ast.literal_eval (line 29): Python's literal grammar over the tokens.   *)
(***************************************************************************)
\* a decimal integer literal: digits only, no leading zero unless all zeros
PyIntOk(w) ==
    /\ \A i \in DOMAIN w : IsDigitChar(w[i])
    /\ (w[1] # "0" \/ \A i \in DOMAIN w : w[i] = "0")

\* the run of adjacent string tokens starting at p ends before this position
RECURSIVE StrRunEnd(_, _)
StrRunEnd(toks, p) ==
    IF p <= Len(toks) /\ toks[p].k = "str" THEN StrRunEnd(toks, p + 1) ELSE p

RECURSIVE StrRunConcat(_, _, _)
StrRunConcat(toks, p, e) ==
    IF p >= e THEN <<>> ELSE toks[p].s \o StrRunConcat(toks, p + 1, e)

IsBytesTok(t) == t.p \in {<<"b">>, <<"b","r">>, <<"r","b">>}
IsFormatTok(t) == t.p \in {<<"f">>, <<"f","r">>, <<"r","f">>}

\* adjacent string literals are concatenated; bytes and str do not mix and
\* an f-string is not a literal
PyStrings(toks, p) ==
    LET e == StrRunEnd(toks, p)
        run == p..(e - 1)
    IN  IF \E i \in run : IsFormatTok(toks[i]) THEN BadParse
        ELSE IF \A i \in run : IsBytesTok(toks[i])
             THEN MkParse(BytesVal(StrRunConcat(toks, p, e)), e)
        ELSE IF \A i \in run : ~IsBytesTok(toks[i])
             THEN MkParse(StrVal(StrRunConcat(toks, p, e)), e)
        ELSE BadParse

\* results of a comma-separated sequence: the items, the position after the
\* closing token and whether a comma was read
MkItems(items, pos, comma) == [ok |-> TRUE, items |-> items, pos |-> pos, comma |-> comma]
BadItems == [ok |-> FALSE, items |-> <<>>, pos |-> 0, comma |-> FALSE]

\* close is a closing bracket, or "eof" for the end of the text
AtClose(toks, p, close) ==
    IF close = "eof" THEN p > Len(toks) ELSE IsOp(toks, p, close)

RECURSIVE PyExpr(_, _)
RECURSIVE PyItems(_, _, _, _, _)
RECURSIVE PyDictItems(_, _, _)

PyExpr(toks, p) ==
    IF p > Len(toks) THEN BadParse
    ELSE LET t == toks[p] IN
         IF t.k = "num"
         THEN IF PyIntOk(t.s) THEN MkParse(IntVal(DigitsToNat(t.s)), p + 1) ELSE BadParse
         ELSE IF t.k = "name"
         THEN IF t.s = <<"T","r","u","e">> THEN MkParse(BoolVal(TRUE), p + 1)
              ELSE IF t.s = <<"F","a","l","s","e">> THEN MkParse(BoolVal(FALSE), p + 1)
              ELSE IF t.s = <<"N","o","n","e">> THEN MkParse(NoneVal, p + 1)
              ELSE BadParse
         ELSE IF t.k = "str" THEN PyStrings(toks, p)
         ELSE IF IsOp(toks, p, "[")
         THEN LET r == PyItems(toks, p + 1, "]", <<>>, FALSE)
              IN  IF r.ok THEN MkParse(ListVal(r.items), r.pos) ELSE BadParse
         ELSE IF IsOp(toks, p, "(")
         THEN LET r == PyItems(toks, p + 1, ")", <<>>, FALSE)
              IN  IF ~r.ok THEN BadParse
                  ELSE IF Len(r.items) = 1 /\ ~r.comma THEN MkParse(r.items[1], r.pos)
                  ELSE MkParse(TupleVal(r.items), r.pos)
         ELSE IF IsOp(toks, p, "{")
         THEN IF IsOp(toks, p + 1, "}") THEN MkParse(EmptyDict, p + 2)
              ELSE LET first == PyExpr(toks, p + 1)
                   IN  IF ~first.ok THEN BadParse
                       ELSE IF IsOp(toks, first.pos, ":")
                       THEN LET r == PyDictItems(toks, p + 1, <<>>)
                            IN  IF r.ok /\ \A i \in DOMAIN r.items : Hashable(PKey(r.items[i]))
                                THEN MkParse(DictVal(DictFromPairs(r.items, <<>>)), r.pos)
                                ELSE BadParse
                       ELSE LET r == PyItems(toks, p + 1, "}", <<>>, FALSE)
                            IN  IF r.ok /\ \A i \in DOMAIN r.items : Hashable(r.items[i])
                                THEN MkParse(SetVal(r.items), r.pos)
                                ELSE BadParse
         ELSE BadParse

\* expressions separated by commas up to close; a trailing comma is allowed
PyItems(toks, p, close, acc, comma) ==
    IF AtClose(toks, p, close) THEN MkItems(acc, p + 1, comma)
    ELSE LET e == PyExpr(toks, p)
         IN  IF ~e.ok THEN BadItems
             ELSE IF IsOp(toks, e.pos, ",")
                  THEN PyItems(toks, e.pos + 1, close, Append(acc, e.val), TRUE)
             ELSE IF AtClose(toks, e.pos, close)
                  THEN MkItems(Append(acc, e.val), e.pos + 1, comma)
             ELSE BadItems

\* key: value entries separated by commas up to "}"
PyDictItems(toks, p, acc) ==
    IF IsOp(toks, p, "}") THEN MkItems(acc, p + 1, FALSE)
    ELSE LET k == PyExpr(toks, p)
         IN  IF ~k.ok \/ ~IsOp(toks, k.pos, ":") THEN BadItems
             ELSE LET v == PyExpr(toks, k.pos + 1)
                  IN  IF ~v.ok THEN BadItems
                      ELSE IF IsOp(toks, v.pos, ",")
                           THEN PyDictItems(toks, v.pos + 1, Append(acc, PairVal(k.val, v.val)))
                      ELSE IF IsOp(toks, v.pos, "}")
                           THEN MkItems(Append(acc, PairVal(k.val, v.val)), v.pos + 1, FALSE)
                      ELSE BadItems

\* the value of the expressions r read up to the end of the text: one
\* expression is itself, a bare "a, b" is a tuple
TopLevel(r) ==
    IF ~r.ok \/ Len(r.items) = 0 THEN BadParse
    ELSE IF Len(r.items) = 1 /\ ~r.comma THEN MkParse(r.items[1], r.pos)
    ELSE MkParse(TupleVal(r.items), r.pos)

LiteralEval(text) == TopLevel(PyItems(Tokens(text, 1), 1, "eof", <<>>, FALSE))

(***************************************************************************)
(* json.loads(json.dumps(obj)) (line 31)                                   *)
(***************************************************************************)
\* json.dumps turns a dict key into a string; only these key types encode
JsonKeyOk(k) == k.tag \in {"str", "int", "bool", "none"}

JsonKey(k) ==
    IF k.tag = "str" THEN k
    ELSE IF k.tag = "int" THEN StrVal(NatToDigits(k.n))
    ELSE IF k.tag = "bool"
         THEN StrVal(IF k.n = 1 THEN <<"t","r","u","e">> ELSE <<"f","a","l","s","e">>)
    ELSE StrVal(<<"n","u","l","l">>)

\* JsonEncodable with a byte-string taken for a str
RECURSIVE JsonEncodableBytes(_)
JsonEncodableBytes(v) ==
    IF v.tag \in {"none", "bool", "int", "str", "bytes"} THEN TRUE
    ELSE IF v.tag \in {"list", "tuple"}
         THEN \A i \in DOMAIN v.items : JsonEncodableBytes(v.items[i])
    ELSE IF v.tag = "dict"
         THEN \A i \in DOMAIN v.items :
                  JsonKeyOk(PKey(v.items[i])) /\ JsonEncodableBytes(PValue(v.items[i]))
    ELSE FALSE

\* json.dumps(v) does not raise TypeError
RECURSIVE JsonEncodable(_)
JsonEncodable(v) ==
    IF v.tag \in {"none", "bool", "int", "str"} THEN TRUE
    ELSE IF v.tag \in {"list", "tuple"}
         THEN \A i \in DOMAIN v.items : JsonEncodable(v.items[i])
    ELSE IF v.tag = "dict"
         THEN \A i \in DOMAIN v.items :
                  JsonKeyOk(PKey(v.items[i])) /\ JsonEncodable(PValue(v.items[i]))
    ELSE FALSE

\* the value decoded from the encoding of an encodable v: a tuple comes back
\* as a list, dict keys come back as strings (a later equal key wins)
RECURSIVE JsonRoundTrip(_)
JsonRoundTrip(v) ==
    IF v.tag \in {"list", "tuple"}
    THEN ListVal([i \in DOMAIN v.items |-> JsonRoundTrip(v.items[i])])
    ELSE IF v.tag = "dict"
    THEN DictVal(DictFromPairs(
             [i \in DOMAIN v.items |->
                 PairVal(JsonKey(PKey(v.items[i])), JsonRoundTrip(PValue(v.items[i])))],
             <<>>))
    ELSE v

(***************************************************************************)
(* json.loads (lines 153, 185, 210, 211, 268, 269, 406): strict JSON over  *)
(* the same tokens.                                                        *)
(***************************************************************************)
JsonIntOk(w) ==
    /\ \A i \in DOMAIN w : IsDigitChar(w[i])
    /\ (w[1] # "0" \/ Len(w) = 1)

JsonStrTok(t) == t.k = "str" /\ t.q = "\"" /\ t.p = <<>>

RECURSIVE JsonValue(_, _)
RECURSIVE JsonArrayItems(_, _, _)
RECURSIVE JsonObjectItems(_, _, _)

JsonValue(toks, p) ==
    IF p > Len(toks) THEN BadParse
    ELSE LET t == toks[p] IN
         IF t.k = "num"
         THEN IF JsonIntOk(t.s) THEN MkParse(IntVal(DigitsToNat(t.s)), p + 1) ELSE BadParse
         ELSE IF t.k = "name"
         THEN IF t.s = <<"t","r","u","e">> THEN MkParse(BoolVal(TRUE), p + 1)
              ELSE IF t.s = <<"f","a","l","s","e">> THEN MkParse(BoolVal(FALSE), p + 1)
              ELSE IF t.s = <<"n","u","l","l">> THEN MkParse(NoneVal, p + 1)
              ELSE IF t.s \in {<<"N","a","N">>, <<"I","n","f","i","n","i","t","y">>}
                   THEN MkParse(FloatVal(t.s), p + 1)
              ELSE BadParse
         ELSE IF JsonStrTok(t) THEN MkParse(StrVal(t.s), p + 1)
         ELSE IF IsOp(toks, p, "[")
         THEN IF IsOp(toks, p + 1, "]") THEN MkParse(ListVal(<<>>), p + 2)
              ELSE LET r == JsonArrayItems(toks, p + 1, <<>>)
                   IN  IF r.ok THEN MkParse(ListVal(r.items), r.pos) ELSE BadParse
         ELSE IF IsOp(toks, p, "{")
         THEN IF IsOp(toks, p + 1, "}") THEN MkParse(EmptyDict, p + 2)
              ELSE LET r == JsonObjectItems(toks, p + 1, <<>>)
                   IN  IF r.ok THEN MkParse(DictVal(DictFromPairs(r.items, <<>>)), r.pos)
                       ELSE BadParse
         ELSE BadParse

\* values separated by commas up to "]"; no trailing comma
JsonArrayItems(toks, p, acc) ==
    LET e == JsonValue(toks, p)
    IN  IF ~e.ok THEN BadItems
        ELSE IF IsOp(toks, e.pos, ",") THEN JsonArrayItems(toks, e.pos + 1, Append(acc, e.val))
        ELSE IF IsOp(toks, e.pos, "]") THEN MkItems(Append(acc, e.val), e.pos + 1, FALSE)
        ELSE BadItems

\* "key": value members separated by commas up to "}"; no trailing comma
JsonObjectItems(toks, p, acc) ==
    IF p > Len(toks) \/ ~JsonStrTok(toks[p]) \/ ~IsOp(toks, p + 1, ":") THEN BadItems
    ELSE LET v == JsonValue(toks, p + 2)
         IN  IF ~v.ok THEN BadItems
             ELSE IF IsOp(toks, v.pos, ",")
                  THEN JsonObjectItems(toks, v.pos + 1, Append(acc, PairVal(StrVal(toks[p].s), v.val)))
             ELSE IF IsOp(toks, v.pos, "}")
                  THEN MkItems(Append(acc, PairVal(StrVal(toks[p].s), v.val)), v.pos + 1, FALSE)
             ELSE BadItems

\* r is a value that ends where the n tokens end
JsonWhole(r, n) == IF r.ok /\ r.pos = n + 1 THEN r ELSE BadParse

JsonDocument(toks) == JsonWhole(JsonValue(toks, 1), Len(toks))

\* one value and nothing after it
JsonLoads(text) == JsonDocument(Tokens(text, 1))

(***************************************************************************)
(* Results of a keyword: what it returned, or the exception it raised.     *)
(***************************************************************************)
Returned(v) == [kind |-> "return", exc |-> "", val |-> v]
Raised(e) == [kind |-> "raise", exc |-> e, val |-> NoneVal]
NoResult == [kind |-> "none", exc |-> "", val |-> NoneVal]

\* lines 27-33: obj is what ast.literal_eval gave; any exception of the
\* parse or of the JSON conversion is raised again as Exception
JsonSafe(obj) ==
    IF obj.ok /\ JsonEncodable(obj.val)
    THEN Returned(JsonRoundTrip(obj.val))
    ELSE Raised("Exception: Error parsing pythonish to json dict")

\* lines 12-33: pythonish_to_json_dict
pythonish_to_json_dict(text) == JsonSafe(LiteralEval(Normalize(text)))

(***************************************************************************)
(* Python built-ins used by the keywords                                   *)
(***************************************************************************)
MkOk(v) == [ok |-> TRUE, val |-> v, exc |-> ""]
MkErr(e) == [ok |-> FALSE, val |-> NoneVal, exc |-> e]

IdKey == StrVal(<<"_", "i", "d">>)

\* the two elements of an item of the iterable given to dict()
PairOfItem(it) ==
    IF it.tag = "list" THEN it.items
    ELSE IF it.tag = "str" THEN [i \in DOMAIN it.s |-> StrVal(<<it.s[i]>>)]
    ELSE [i \in DOMAIN it.items |-> PKey(it.items[i])]

RECURSIVE DictOfItems(_, _)
DictOfItems(items, acc) ==
    IF Len(items) = 0 THEN MkOk(DictVal(acc))
    ELSE LET it == Head(items) IN
         IF it.tag \notin {"list", "str", "dict"} THEN MkErr("TypeError")
         ELSE IF Len(PairOfItem(it)) # 2 THEN MkErr("ValueError")
         ELSE IF ~Hashable(PairOfItem(it)[1]) THEN MkErr("TypeError")
         ELSE DictOfItems(Tail(items), DictPut(acc, PairOfItem(it)[1], PairOfItem(it)[2]))

\* dict(v) (lines 153, 185, 268, 269, 449)
PyDict(v) ==
    IF v.tag = "dict" THEN MkOk(v)
    ELSE IF v.tag = "list" THEN DictOfItems(v.items, <<>>)
    ELSE IF v.tag = "str" THEN IF Len(v.s) = 0 THEN MkOk(EmptyDict) ELSE MkErr("ValueError")
    ELSE MkErr("TypeError")

IsSubstring(w, s) ==
    \E i \in 1..(Len(s) - Len(w) + 1) : SubSeq(s, i, i + Len(w) - 1) = w

\* '_id' in v: a key of a dict, an element of a list, a substring of a str
HasId(v) ==
    IF v.tag = "dict" THEN MkOk(BoolVal(DictHas(v.items, IdKey)))
    ELSE IF v.tag = "list" THEN MkOk(BoolVal(\E i \in DOMAIN v.items : v.items[i] = IdKey))
    ELSE IF v.tag = "str" THEN MkOk(BoolVal(IsSubstring(IdKey.s, v.s)))
    ELSE MkErr("TypeError")

\* v['_id']
GetId(v) == IF v.tag = "dict" THEN MkOk(DictGet(v.items, IdKey)) ELSE MkErr("TypeError")

\* bool(v)
Truthy(v) ==
    IF v.tag \in {"bool", "int"} THEN v.n # 0
    ELSE IF v.tag \in {"str", "bytes"} THEN Len(v.s) > 0
    ELSE IF v.tag \in {"list", "tuple", "set", "dict"} THEN Len(v.items) > 0
    ELSE v.tag # "none"

(***************************************************************************)
(* bson.objectid.ObjectId(oid)                                             *)
(***************************************************************************)
\* bytes.fromhex: pairs of hex digits, white space allowed between pairs
RECURSIVE FromHex(_, _)
FromHex(s, i) ==
    IF i > Len(s) THEN MkOk(StrVal(<<>>))
    ELSE IF s[i] = " " THEN FromHex(s, i + 1)
    ELSE IF i < Len(s) /\ IsHexChar(s[i]) /\ IsHexChar(s[i + 1])
         THEN LET r == FromHex(s, i + 2)
              IN  IF r.ok THEN MkOk(StrVal(<<LowerChar(s[i]), LowerChar(s[i + 1])>> \o r.val.s))
                  ELSE r
    ELSE MkErr("ValueError")

\* an ObjectId holding the bytes written by the hex digits s
OidVal(s) == MkVal("oid", 0, s, <<>>)
\* an ObjectId freshly generated by the driver library
GeneratedOid == MkVal("oid", 1, <<>>, <<>>)

ObjectId(v) ==
    IF v.tag = "none" THEN MkOk(GeneratedOid)
    ELSE IF v.tag = "oid" THEN MkOk(v)
    ELSE IF v.tag = "str"
         THEN IF Len(v.s) = 24 /\ FromHex(v.s, 1).ok
              THEN MkOk(OidVal(FromHex(v.s, 1).val.s))
              ELSE MkErr("InvalidId")
    ELSE MkErr("TypeError")

\* doc['_id'] = oid, where oid is the outcome of ObjectId(...)
SetId(doc, oid) ==
    IF ~oid.ok THEN MkErr(oid.exc)
    ELSE MkOk(DictVal(DictPut(doc.items, IdKey, oid.val)))

\* SetId building a new document that holds the identifier alone
SetIdAlone(doc, oid) ==
    IF ~oid.ok THEN MkErr(oid.exc)
    ELSE MkOk(DictVal(<<PairVal(IdKey, oid.val)>>))

\* ObjectId(cur), where cur is the outcome of the subscript ['_id']
WrapId(cur) == IF ~cur.ok THEN MkErr(cur.exc) ELSE ObjectId(cur.val)

\* NormalizeId with the new document holding the identifier alone
NormalizeIdAlone(doc) ==
    IF ~HasId(doc).ok THEN MkErr(HasId(doc).exc)
    ELSE IF HasId(doc).val.n = 0 THEN MkOk(doc)
    ELSE SetIdAlone(doc, WrapId(GetId(doc)))

\* if '_id' in doc: doc['_id'] = ObjectId(doc['_id'])
\* (lines 154-155, 186-187, 271-272, 365-366, 407-408)
NormalizeId(doc) ==
    IF ~HasId(doc).ok THEN MkErr(HasId(doc).exc)
    ELSE IF HasId(doc).val.n = 0 THEN MkOk(doc)
    ELSE SetId(doc, WrapId(GetId(doc)))

\* lines 212-213: the identifier is looked up in the text queryJSON, not in
\* the decoded query_json; subscripting a str with a str raises TypeError
NormalizeIdUpdateMany(query_json, queryJSON) ==
    IF ~HasId(query_json).ok THEN MkErr(HasId(query_json).exc)
    ELSE IF HasId(query_json).val.n = 0 THEN MkOk(query_json)
    ELSE SetId(query_json, WrapId(GetId(StrVal(queryJSON))))

(***************************************************************************)
(* repr() and the rendering of a document's items (line 382)               *)
(***************************************************************************)
RECURSIVE JoinSeqs(_, _)
JoinSeqs(parts, sep) ==
    IF Len(parts) = 0 THEN <<>>
    ELSE IF Len(parts) = 1 THEN parts[1]
    ELSE parts[1] \o sep \o JoinSeqs(Tail(parts), sep)

RECURSIVE EscapeQuote(_)
EscapeQuote(s) ==
    IF Len(s) = 0 THEN <<>>
    ELSE (IF Head(s) = "'" THEN <<"\\", "'">> ELSE <<Head(s)>>) \o EscapeQuote(Tail(s))

\* repr of a str: single quotes, unless it holds a ' and no "
StrRepr(s) ==
    IF (\E i \in DOMAIN s : s[i] = "'") /\ ~(\E i \in DOMAIN s : s[i] = "\"")
    THEN <<"\"">> \o s \o <<"\"">>
    ELSE <<"'">> \o EscapeQuote(s) \o <<"'">>

RECURSIVE PyRepr(_)
PyRepr(v) ==
    IF v.tag = "none" THEN <<"N","o","n","e">>
    ELSE IF v.tag = "bool"
         THEN IF v.n = 1 THEN <<"T","r","u","e">> ELSE <<"F","a","l","s","e">>
    ELSE IF v.tag = "int" THEN NatToDigits(v.n)
    ELSE IF v.tag = "str" THEN StrRepr(v.s)
    ELSE IF v.tag = "oid"
         THEN <<"O","b","j","e","c","t","I","d","(","'">> \o v.s \o <<"'",")">>
    ELSE IF v.tag = "list"
         THEN <<"[">> \o JoinSeqs([i \in DOMAIN v.items |-> PyRepr(v.items[i])], <<",", " ">>)
              \o <<"]">>
    ELSE IF v.tag = "dict"
         THEN <<"{">> \o JoinSeqs([i \in DOMAIN v.items |->
                                      PyRepr(PKey(v.items[i])) \o <<":", " ">>
                                      \o PyRepr(PValue(v.items[i]))], <<",", " ">>)
              \o <<"}">>
    ELSE v.s

\* '%s' % d.items()
ItemsRepr(d) ==
    <<"d","i","c","t","_","i","t","e","m","s","(","[">>
    \o JoinSeqs([i \in DOMAIN d.items |->
                    <<"(">> \o PyRepr(PKey(d.items[i])) \o <<",", " ">>
                    \o PyRepr(PValue(d.items[i])) \o <<")">>], <<",", " ">>)
    \o <<"]", ")">>

\* lines 380-383: response = '%s%s' % (response, d.items()) for each d
RECURSIVE RawResponse(_, _)
RawResponse(docs, response) ==
    IF Len(docs) = 0 THEN response
    ELSE RawResponse(Tail(docs), response \o ItemsRepr(Head(docs)))

(***************************************************************************)
(* The call received by the pymongo collection, if any                     *)
(***************************************************************************)
Absent == MkVal("absent", 0, <<>>, <<>>)
NoCall == [called |-> FALSE, method |-> "", filter |-> Absent, update |-> Absent,
           projection |-> Absent, option |-> Absent]
DriverCall(m, f, u, pr, o) ==
    [called |-> TRUE, method |-> m, filter |-> f, update |-> u, projection |-> pr,
     option |-> o]
\* what a write operation of the driver returns
DriverResult == MkVal("driver_result", 0, <<>>, <<>>)

\* the cursor coll.find returns: the documents the store matched, how many of
\* them have been yielded, and how many times it has been iterated
Cursor(docs) == [docs |-> docs, pos |-> 0, passes |-> 0]
NoCursor == Cursor(<<>>)
\* one iteration to exhaustion (list(results), or the for loop of line 381):
\* the documents not yet yielded, in order; the cursor does not restart
Iterate(c) ==
    [yielded |-> SubSeq(c.docs, c.pos + 1, Len(c.docs)),
     cursor |-> [docs |-> c.docs, pos |-> Len(c.docs), passes |-> c.passes + 1]]

Outcome(r, d) == [result |-> r, driver |-> d, cursor |-> NoCursor]
\* the outcome of a keyword that iterated the cursor of its driver call
Retrieved(s, d) == [result |-> s.result, driver |-> d, cursor |-> s.cursor]
Fails(e) == Outcome(Raised(e), NoCall)

(***************************************************************************)
(* The keywords                                                            *)
(***************************************************************************)
\* lines 377-383: the documents as a list, or their items rendered into one
\* string
\* Serialized with a line break written between two documents
SerializedSeparated(retDocs, it) ==
    [result |-> IF Truthy(retDocs) THEN Returned(ListVal(it.yielded))
                ELSE Returned(StrVal(JoinSeqs([i \in DOMAIN it.yielded |->
                                                 ItemsRepr(it.yielded[i])], <<"\n">>))),
     cursor |-> it.cursor]

Serialized(retDocs, it) ==
    [result |-> IF Truthy(retDocs) THEN Returned(ListVal(it.yielded))
                ELSE Returned(StrVal(RawResponse(it.yielded, <<>>))),
     cursor |-> it.cursor]
Serialize(retDocs, results) == Serialized(retDocs, Iterate(results))

\* lines 368-383: norm is the outcome of the identifier step
RetrieveNormalized(conn, norm, flds, retDocs, docs) ==
    IF ~norm.ok THEN Fails(norm.exc)
    ELSE IF ~conn THEN Fails("AssertionError")
    ELSE IF Truthy(flds)
         THEN Retrieved(Serialize(retDocs, Cursor(docs)),
                        DriverCall("find", norm.val, Absent, flds, Absent))
         ELSE Retrieved(Serialize(retDocs, Cursor(docs)),
                        DriverCall("find", norm.val, Absent, Absent, Absent))

\* lines 364-383: criteria is the outcome of pythonish_to_json_dict
RetrieveParsed(conn, criteria, flds, retDocs, docs) ==
    IF criteria.kind = "raise" THEN Fails(criteria.exc)
    ELSE RetrieveNormalized(conn, NormalizeId(criteria.val), flds, retDocs, docs)

\* lines 359-383: _retrieve_mongodb_records; docs is what the cursor yields
RetrieveRecords(conn, text, flds, retDocs, docs) ==
    RetrieveParsed(conn, pythonish_to_json_dict(text), flds, retDocs, docs)

\* the driver call of a write keyword, after the identifier step norm
CallDriver(conn, norm, method, update, option) ==
    IF ~norm.ok THEN Fails(norm.exc)
    ELSE IF ~conn THEN Fails("AssertionError")
    ELSE Outcome(Returned(DriverResult), DriverCall(method, norm.val, update, Absent, option))

\* d is the outcome of dict(...)
WriteDict(method, conn, d) ==
    IF ~d.ok THEN Fails(d.exc)
    ELSE CallDriver(conn, NormalizeId(d.val), method, Absent, Absent)

\* loaded is the outcome of json.loads
WriteLoaded(method, conn, loaded) ==
    IF ~loaded.ok THEN Fails("JSONDecodeError")
    ELSE WriteDict(method, conn, PyDict(loaded.val))

\* lines 151-163 (insert_one) and 183-195 (save)
WriteRecord(method, conn, text) == WriteLoaded(method, conn, JsonLoads(text))

UpdateManyLoaded(conn, query_json, queryText, update_json, ups) ==
    IF ~query_json.ok \/ ~update_json.ok THEN Fails("JSONDecodeError")
    ELSE CallDriver(conn, NormalizeIdUpdateMany(query_json.val, queryText),
                    "update_many", update_json.val, ups)

\* lines 208-223
UpdateMany(conn, queryText, updateText, ups) ==
    UpdateManyLoaded(conn, JsonLoads(queryText), queryText, JsonLoads(updateText), ups)

\* lines 270-285: both documents are dicts
UpdateOneDicts(conn, record_json, update_json, before) ==
    IF ~update_json.ok THEN Fails(update_json.exc)
    ELSE CallDriver(conn, NormalizeId(record_json.val), "find_one_and_update",
                    update_json.val, BoolVal(before = BoolVal(TRUE)))

\* line 269, after line 268 gave record_json
UpdateOneQuery(conn, record_json, u, before) ==
    IF ~record_json.ok THEN Fails(record_json.exc)
    ELSE IF ~u.ok THEN Fails("JSONDecodeError")
    ELSE UpdateOneDicts(conn, record_json, PyDict(u.val), before)

\* line 268
UpdateOneLoaded(conn, q, u, before) ==
    IF ~q.ok THEN Fails("JSONDecodeError")
    ELSE UpdateOneQuery(conn, PyDict(q.val), u, before)

\* lines 266-285
RetrieveAndUpdateOne(conn, queryText, updateText, before) ==
    UpdateOneLoaded(conn, JsonLoads(queryText), JsonLoads(updateText), before)

RemoveLoaded(conn, loaded) ==
    IF ~loaded.ok THEN Fails("JSONDecodeError")
    ELSE CallDriver(conn, NormalizeId(loaded.val), "delete_many", Absent, Absent)

\* lines 404-416
RemoveRecords(conn, text) == RemoveLoaded(conn, JsonLoads(text))

(***************************************************************************)
(* retrieve_mongodb_records_with_desired_fields (lines 326-357)            *)
(***************************************************************************)
\* str.replace(' ', '')
RECURSIVE RemoveSpaces(_)
RemoveSpaces(s) ==
    IF Len(s) = 0 THEN <<>>
    ELSE (IF Head(s) = " " THEN <<>> ELSE <<Head(s)>>) \o RemoveSpaces(Tail(s))

\* str.split(',')
RECURSIVE SplitComma(_, _)
SplitComma(s, cur) ==
    IF Len(s) = 0 THEN <<cur>>
    ELSE IF Head(s) = "," THEN <<cur>> \o SplitComma(Tail(s), <<>>)
    ELSE SplitComma(Tail(s), Append(cur, Head(s)))

\* CoerceFlag without the lower-casing of line 331
CoerceFlagCaseSensitive(flag) ==
    IF flag.tag = "str"
    THEN IF StrIsDigit(flag.s) THEN flag
         ELSE IF flag.s = <<"f","a","l","s","e">> THEN BoolVal(FALSE)
         ELSE BoolVal(TRUE)
    ELSE flag

\* lines 327-337: a str flag that is not all digits becomes a bool; a digit
\* str, and any value without isdigit (AttributeError), is left as it is
CoerceFlag(flag) ==
    IF flag.tag = "str"
    THEN IF StrIsDigit(flag.s) THEN flag
         ELSE IF StrLower(flag.s) = <<"f","a","l","s","e">> THEN BoolVal(FALSE)
         ELSE BoolVal(TRUE)
    ELSE flag

\* lines 343-344: data[item] = True for each item
RECURSIVE FieldsDict(_, _)
FieldsDict(its, data) ==
    IF Len(its) = 0 THEN data
    ELSE FieldsDict(Tail(its), DictPut(data, StrVal(Head(its)), BoolVal(TRUE)))

\* lines 340-353
\* lines 346-351: the "_id" entry
SetIdEntry(data, flag) ==
    IF Truthy(flag) THEN MkOk(DictVal(DictPut(data, IdKey, BoolVal(TRUE))))
    ELSE IF ~Truthy(flag) THEN MkOk(DictVal(DictPut(data, IdKey, BoolVal(FALSE))))
    ELSE MkErr("Exception: Not a boolean value for return__id")

BuildProjection(flds, flag) ==
    IF Truthy(flds)
    THEN SetIdEntry(FieldsDict(SplitComma(RemoveSpaces(flds.s), <<>>), <<>>), flag)
    ELSE MkOk(ListVal(<<>>))

\* lines 355-357: data is the outcome of lines 340-353
RetrieveProjected(conn, text, data, retDocs, docs) ==
    IF ~data.ok THEN Fails(data.exc)
    ELSE RetrieveRecords(conn, text, data.val, retDocs, docs)

RetrieveWithDesiredFields(conn, text, flds, flag, retDocs, docs) ==
    RetrieveProjected(conn, text, BuildProjection(flds, CoerceFlag(flag)), retDocs, docs)

(***************************************************************************)
(* Inputs.  A keyword is called with texts; the sets below enumerate the   *)
(* texts, field lists, flags and cursor contents explored.                 *)
(***************************************************************************)
MaxItems == 2     \* longest list written in a text
MaxFields == 2    \* most paths in a field list
MaxRecords == 2   \* most documents yielded by a cursor

T_true == <<"t","r","u","e">>
T_false == <<"f","a","l","s","e">>
T_null == <<"n","u","l","l">>

Quoted(q, w) == <<q>> \o w \o <<q>>

\* all sequences over S of length 0..n
RECURSIVE SeqsUpTo(_, _)
SeqsUpTo(S, n) ==
    IF n = 0 THEN {<<>>}
    ELSE LET shorter == SeqsUpTo(S, n - 1)
         IN  shorter \cup {Append(q, x) : q \in {r \in shorter : Len(r) = n - 1}, x \in S}

Words == {<<"a">>, T_true, <<"N","U","L","L">>, <<"x","_","n","u","l","l">>,
          <<"n","o"," ","F","a","l","s","e">>}
StrFrags == {Quoted(q, w) : q \in QuoteChars, w \in Words}
LitFrags == {T_true, <<"T","R","U","E">>, T_false, <<"F","a","l","s","e">>, T_null,
             <<"N","u","l","l">>, <<"N","o","n","e">>}
NumFrags == {<<"0">>, <<"1","2">>}
NonJsonFrags == {<<"b","'","a","'">>, <<"(",")">>, <<"(","1",",",")">>,
                 <<"(","'","t","r","u","e","'",","," ","n","u","l","l",")">>,
                 <<"{","1","}">>, <<"[","{","1",",","2","}","]">>}
ElemFrags == {T_true, Quoted("\"", T_true), <<"1">>, <<"(","1",",",")">>}
ListFrags == {<<"[">> \o JoinSeqs(q, <<",", " ">>) \o <<"]">> : q \in SeqsUpTo(ElemFrags, MaxItems)}
ValueFrags == StrFrags \cup LitFrags \cup NumFrags \cup NonJsonFrags \cup ListFrags
KeyFrags == {Quoted(q, w) : q \in QuoteChars, w \in {<<"a">>, T_true, <<"N","U","L","L">>}}
            \cup {<<"b","'","a","'">>, <<"(","1",",",")">>}
Doc1(k, v) == <<"{">> \o k \o <<":", " ">> \o v \o <<"}">>
Doc2(k1, v1, k2, v2) == <<"{">> \o k1 \o <<":", " ">> \o v1 \o <<",", " ">> \o k2
                        \o <<":", " ">> \o v2 \o <<"}">>
OddTexts == {<<>>, <<"{","b","a","d"," ","j","s","o","n">>, <<"{","'","a","'",":","}">>,
              <<"[","1",",",",","2","]">>, <<"{","'","a","'"," ","1","}">>,
              <<"t","r","u","e","1">>, <<"'","a">>, <<"{","a",":"," ","1","}">>,
              <<"[","1",",","]">>, <<"1",","," ","2">>}
\* the same document written in the two styles
PythonStyleText ==
    <<"{">> \o Quoted("'", <<"a">>) \o <<":", " ", "T", "R", "U", "E", ",", " ">>
    \o Quoted("'", <<"b">>) \o <<":", " ", "N", "u", "l", "l", ",", " ">>
    \o Quoted("'", <<"c">>) \o <<":", " ">> \o T_false \o <<"}">>
JsonStyleText ==
    <<"{">> \o Quoted("\"", <<"a">>) \o <<":", " ">> \o T_true \o <<",", " ">>
    \o Quoted("\"", <<"b">>) \o <<":", " ">> \o T_null \o <<",", " ">>
    \o Quoted("\"", <<"c">>) \o <<":", " ">> \o T_false \o <<"}">>
PlainTexts ==
    ValueFrags \cup OddTexts \cup {PythonStyleText, JsonStyleText}
    \cup {Doc1(k, v) : k \in KeyFrags, v \in ValueFrags}
    \cup {Doc2(k1, v1, k2, v2) :
             k1 \in {Quoted("\"", <<"a">>), Quoted("'", T_true)},
             k2 \in {Quoted("\"", <<"b">>), Quoted("\"", T_true)},
             v1 \in {T_true, Quoted("\"", T_null)},
             v2 \in {<<"1">>, Quoted("'", <<"N","U","L","L">>)}}

Hex24 == <<"5","0","7","f","1","f","7","7","b","c","f","8","6","c","d","7","9","9","4","3",
           "9","0","1","1">>
Hex24Upper == <<"5","0","7","F","1","F","7","7","B","C","F","8","6","C","D","7","9","9","4",
                "3","9","0","1","1">>
IdTokens == {Hex24, Hex24Upper, SubSeq(Hex24, 1, 23), Hex24 \o <<"0">>,
             <<"n","o","t","-","h","e","x">>, <<>>,
             SubSeq(Hex24, 1, 23) \o <<"g">>, SubSeq(Hex24, 1, 22) \o <<" ", " ">>}
IdFrags == {Quoted("\"", w) : w \in IdTokens} \cup {Quoted("'", Hex24)}
           \cup {T_null, <<"N","U","L","L">>, <<"7">>, T_true, <<"[","1","]">>}
IdKeyFrags == {Quoted("\"", IdKey.s), Quoted("'", IdKey.s)}
IdTexts ==
    {Doc1(k, v) : k \in IdKeyFrags, v \in IdFrags}
    \cup {Doc2(k, v, Quoted("\"", <<"x">>), <<"1">>) : k \in IdKeyFrags, v \in IdFrags}
    \cup {Doc2(Quoted("\"", <<"x">>), Quoted("\"", T_true), k, v) :
             k \in {Quoted("\"", IdKey.s)}, v \in IdFrags}
    \cup {<<"[">> \o Quoted("\"", IdKey.s) \o <<"]">>, Quoted("\"", <<"x">> \o IdKey.s),
          <<"7">>, <<"[","[","1",","," ","2","]","]">>}

EmptyDoc == <<"{", "}">>
UpdateTexts == {Doc1(Quoted("\"", <<"$","s","e","t">>), Doc1(Quoted("\"", <<"a">>), T_true)),
                <<"{","b","a","d">>, <<"[","]">>}

Paths == {<<"a">>, <<"a",".","b">>, IdKey.s, <<"a"," ","b">>, <<" ","a">>, <<"\t","a">>, <<>>}
FieldTexts == {JoinSeqs(q, <<",">>) : q \in SeqsUpTo(Paths, MaxFields)}
FalseTokens == {<<c1, c2, c3, c4, c5>> : c1 \in {"f", "F"}, c2 \in {"a", "A"}, c3 \in {"l", "L"},
                                         c4 \in {"s", "S"}, c5 \in {"e", "E"}}
FlagTokens == FalseTokens \cup {T_true, <<"T","r","u","e">>, <<"0">>, <<"1">>, <<"0","0">>,
                                <<"n","o">>, <<>>, T_false \o <<" ">>, <<"f","a","l","s">>}
Flags == {BoolVal(TRUE), BoolVal(FALSE), IntVal(0), IntVal(1), NoneVal}
         \cup {StrVal(w) : w \in FlagTokens}

CursorDocs == {DictVal(<<PairVal(StrVal(<<"a">>), IntVal(1))>>),
               DictVal(<<PairVal(IdKey, OidVal(Hex24)), PairVal(StrVal(<<"b">>), StrVal(<<"x">>))>>)}
RecordSeqs == SeqsUpTo(CursorDocs, MaxRecords)

(***************************************************************************)
(* State: the arguments of the keyword call, the connection, and what the  *)
(* call did (op: the keyword that ran, result, driver: the driver call).   *)
(***************************************************************************)
VARIABLES connected, recordJSON, updateJSON, fields, return__id, returnDocuments,
          returnBeforeDocument, upsert, records, op, result, driver, cursor

inputs == <<connected, recordJSON, updateJSON, fields, return__id, returnDocuments,
            returnBeforeDocument, upsert, records>>
vars == <<connected, recordJSON, updateJSON, fields, return__id, returnDocuments,
          returnBeforeDocument, upsert, records, op, result, driver, cursor>>

DefaultUpdate == Doc1(Quoted("\"", <<"$","s","e","t">>), Doc1(Quoted("\"", <<"a">>), T_true))

\* criteria, update and record texts
InitTexts ==
    /\ recordJSON \in PlainTexts \cup IdTexts
    /\ updateJSON = DefaultUpdate
    /\ fields = StrVal(<<>>)
    /\ return__id = BoolVal(TRUE)
    /\ returnDocuments = BoolVal(FALSE)
    /\ returnBeforeDocument = BoolVal(FALSE)
    /\ upsert = BoolVal(FALSE)
    /\ records = <<>>

\* update texts and options
InitUpdates ==
    /\ recordJSON \in {EmptyDoc, Doc1(Quoted("\"", IdKey.s), Quoted("\"", Hex24))}
    /\ updateJSON \in UpdateTexts
    /\ fields = StrVal(<<>>)
    /\ return__id = BoolVal(TRUE)
    /\ returnDocuments = BoolVal(FALSE)
    /\ returnBeforeDocument \in {BoolVal(TRUE), BoolVal(FALSE), StrVal(<<"T","r","u","e">>)}
    /\ upsert \in {BoolVal(TRUE), BoolVal(FALSE)}
    /\ records = <<>>

\* field lists and identifier flags
InitProjections ==
    /\ recordJSON = EmptyDoc
    /\ updateJSON = DefaultUpdate
    /\ \/ fields \in {StrVal(f) : f \in FieldTexts}
          /\ return__id \in {BoolVal(TRUE), BoolVal(FALSE), StrVal(T_false), StrVal(<<"0">>)}
       \/ fields \in {StrVal(<<>>), StrVal(<<"f","i","r","s","t","N","a","m","e">>),
                      StrVal(<<"a",","," ","b",".","c">>)}
          /\ return__id \in Flags
    /\ returnDocuments = BoolVal(FALSE)
    /\ returnBeforeDocument = BoolVal(FALSE)
    /\ upsert = BoolVal(FALSE)
    /\ records = <<>>

\* cursor contents and result modes
InitCursors ==
    /\ recordJSON = EmptyDoc
    /\ updateJSON = DefaultUpdate
    /\ fields \in {StrVal(<<>>), StrVal(<<"a">>)}
    /\ return__id = BoolVal(TRUE)
    /\ returnDocuments \in {BoolVal(TRUE), BoolVal(FALSE), StrVal(<<"F","a","l","s","e">>)}
    /\ returnBeforeDocument = BoolVal(FALSE)
    /\ upsert = BoolVal(FALSE)
    /\ records \in RecordSeqs

Init ==
    /\ connected \in BOOLEAN
    /\ InitTexts \/ InitUpdates \/ InitProjections \/ InitCursors
    /\ op = "none"
    /\ result = NoResult
    /\ driver = NoCall
    /\ cursor = NoCursor

\* one keyword call: it runs from the state before any call
Call(name, out) ==
    /\ op = "none"
    /\ op' = name
    /\ result' = out.result
    /\ driver' = out.driver
    /\ cursor' = out.cursor
    /\ UNCHANGED inputs

Parse ==
    Call("pythonish_to_json_dict", Outcome(pythonish_to_json_dict(recordJSON), NoCall))

insert_mongodb_record ==
    Call("insert_mongodb_record", WriteRecord("insert_one", connected, recordJSON))

save_mongodb_records ==
    Call("save_mongodb_records", WriteRecord("save", connected, recordJSON))

update_many_mongodb_records ==
    Call("update_many_mongodb_records", UpdateMany(connected, recordJSON, updateJSON, upsert))

\* lines 225-236: the criteria text is '{}'
retrieve_all_mongodb_records ==
    Call("retrieve_all_mongodb_records",
         RetrieveRecords(connected, EmptyDoc, ListVal(<<>>), returnDocuments, records))

\* lines 238-251
retrieve_some_mongodb_records ==
    Call("retrieve_some_mongodb_records",
         RetrieveRecords(connected, recordJSON, ListVal(<<>>), returnDocuments, records))

retrieve_and_update_one_mongodb_record ==
    Call("retrieve_and_update_one_mongodb_record",
         RetrieveAndUpdateOne(connected, recordJSON, updateJSON, returnBeforeDocument))

retrieve_mongodb_records_with_desired_fields ==
    Call("retrieve_mongodb_records_with_desired_fields",
         RetrieveWithDesiredFields(connected, recordJSON, fields, return__id,
                                   returnDocuments, records))

remove_mongodb_records ==
    Call("remove_mongodb_records", RemoveRecords(connected, recordJSON))

Next ==
    \/ Parse
    \/ insert_mongodb_record
    \/ save_mongodb_records
    \/ update_many_mongodb_records
    \/ retrieve_all_mongodb_records
    \/ retrieve_some_mongodb_records
    \/ retrieve_and_update_one_mongodb_record
    \/ retrieve_mongodb_records_with_desired_fields
    \/ remove_mongodb_records

Spec == Init /\ [][Next]_vars

(***************************************************************************)
(* Properties                                                              *)
(***************************************************************************)
ParseOp == "pythonish_to_json_dict"
RetrieveOps == {"retrieve_some_mongodb_records", "retrieve_mongodb_records_with_desired_fields"}
DictOps == {"insert_mongodb_record", "save_mongodb_records",
            "retrieve_and_update_one_mongodb_record"}
JsonOps == DictOps \cup {"remove_mongodb_records", "update_many_mongodb_records"}
IdOps == RetrieveOps \cup JsonOps

\* the contents of the str values and keys of v
RECURSIVE StrSet(_)
StrSet(v) ==
    IF v.tag = "str" THEN {v.s}
    ELSE UNION {StrSet(v.items[i]) : i \in DOMAIN v.items}

\* the contents written between quotes in a text
WrittenStrings(text) ==
    LET toks == Tokens(text, 1)
    IN  {toks[i].s : i \in {j \in DOMAIN toks : toks[j].k = "str"}}

\* C1: when pythonish_to_json_dict succeeds, every string value and every
\* object key of the result is the content written between quotes in the
\* input text, whatever words it contains.
C1_StringsKept ==
    (op = ParseOp /\ result.kind = "return")
        => StrSet(result.val) \subseteq WrittenStrings(recordJSON)

\* C2: on a valid strict-JSON text, pythonish_to_json_dict succeeds and
\* returns the value that decoding the text as JSON gives.
C2_JsonRoundTrip ==
    (op = ParseOp /\ JsonLoads(recordJSON).ok)
        => result = Returned(JsonLoads(recordJSON).val)

\* the value the literal grammar reads from the normalized input text
LiteralOfInput == LiteralEval(Normalize(recordJSON))

RECURSIVE HasTag(_, _)
HasTag(v, tags) ==
    v.tag \in tags \/ \E i \in DOMAIN v.items : HasTag(v.items[i], tags)

\* some dict in v has a key that is not a str
RECURSIVE HasNonStrKey(_)
HasNonStrKey(v) ==
    \/ v.tag = "pair" /\ PKey(v).tag # "str"
    \/ \E i \in DOMAIN v.items : HasNonStrKey(v.items[i])

RECURSIVE TuplesAsLists(_)
TuplesAsLists(v) ==
    [v EXCEPT !.tag = IF @ = "tuple" THEN "list" ELSE @,
              !.items = [i \in DOMAIN @ |-> TuplesAsLists(@[i])]]

\* C3 as stated: a text that is not a valid literal, or whose value holds a
\* tuple, a set or a byte-string, makes pythonish_to_json_dict fail.
C3_NonJsonRejected ==
    (op = ParseOp
     /\ (~LiteralOfInput.ok \/ HasTag(LiteralOfInput.val, {"tuple", "set", "bytes"})))
        => result.kind = "raise"

\* some dict in v has a tuple as a key
RECURSIVE HasTupleKey(_)
HasTupleKey(v) ==
    \/ v.tag = "pair" /\ PKey(v).tag = "tuple"
    \/ \E i \in DOMAIN v.items : HasTupleKey(v.items[i])

\* C3 amended: a text that is not a valid literal, or whose value holds a
\* set or a byte-string, or a tuple as an object key, makes
\* pythonish_to_json_dict fail and return no value; a tuple in value
\* position is not rejected, it is returned as the array of its elements.
C3_SetsAndBytesRejected ==
    op = ParseOp =>
        /\ (\/ ~LiteralOfInput.ok
            \/ HasTag(LiteralOfInput.val, {"set", "bytes"})
            \/ HasTupleKey(LiteralOfInput.val))
               => (result.kind = "raise" /\ result.val = NoneVal)
        /\ (LiteralOfInput.ok /\ ~HasTag(LiteralOfInput.val, {"set", "bytes"})
            /\ ~HasNonStrKey(LiteralOfInput.val))
               => result = Returned(TuplesAsLists(LiteralOfInput.val))

\* C3 witness: a byte-string value was rejected
C3_Witness ==
    /\ op = ParseOp
    /\ LiteralOfInput.ok
    /\ HasTag(LiteralOfInput.val, {"bytes"})
    /\ ~HasTag(LiteralOfInput.val, {"set", "tuple"})
    /\ result.kind = "raise"

\* the document a keyword reads from recordJSON, before the identifier step
InputDoc ==
    IF op \in RetrieveOps
    THEN LET r == pythonish_to_json_dict(recordJSON)
         IN  IF r.kind = "return" THEN MkOk(r.val) ELSE MkErr(r.exc)
    ELSE LET r == JsonLoads(recordJSON)
         IN  IF ~r.ok THEN MkErr("JSONDecodeError")
             ELSE IF op \in DictOps THEN PyDict(r.val) ELSE MkOk(r.val)

\* the text of updateJSON is usable by the keyword that ran
UpdateTextOk ==
    \/ op \notin {"update_many_mongodb_records", "retrieve_and_update_one_mongodb_record"}
    \/ /\ JsonLoads(updateJSON).ok
       /\ op = "retrieve_and_update_one_mongodb_record" => PyDict(JsonLoads(updateJSON).val).ok

HasIdKey(doc) == doc.tag = "dict" /\ \E i \in DOMAIN doc.items : PKey(doc.items[i]) = IdKey
IdOf(doc) == PValue(doc.items[CHOOSE i \in DOMAIN doc.items : PKey(doc.items[i]) = IdKey])
\* a String of exactly 24 hexadecimal characters
WellFormedToken(x) == x.tag = "str" /\ Len(x.s) = 24 /\ \A i \in DOMAIN x.s : IsHexChar(x.s[i])
\* the DocumentId wrapping a token
DocumentId(x) == MkVal("oid", 0, [i \in DOMAIN x.s |-> LowerChar(x.s[i])], <<>>)

\* C4: in every keyword that normalizes the identifier, a document whose
\* "_id" is not a String of exactly 24 hexadecimal characters makes the
\* keyword fail, and the driver is not called.
C4_IdentifierErrors ==
    (op \in IdOps /\ InputDoc.ok /\ HasIdKey(InputDoc.val)
     /\ ~WellFormedToken(IdOf(InputDoc.val)))
        => (result.kind = "raise" /\ ~driver.called)

\* C5: for a document with a well-formed "_id", every keyword that
\* normalizes the identifier hands the driver a document whose "_id" is the
\* DocumentId wrapping that token; none of them fails.
C5_SameStepEverywhere ==
    (op \in IdOps /\ connected /\ UpdateTextOk /\ JsonLoads(recordJSON).ok
     /\ HasIdKey(JsonLoads(recordJSON).val)
     /\ WellFormedToken(IdOf(JsonLoads(recordJSON).val)))
        => /\ result.kind = "return"
           /\ driver.called
           /\ HasIdKey(driver.filter)
           /\ IdOf(driver.filter) = DocumentId(IdOf(JsonLoads(recordJSON).val))

\* C6: in the retrieve keywords, a parsed document with a well-formed "_id"
\* reaches the driver with "_id" replaced by the DocumentId wrapping that
\* token and every other key/value pair as parsed, in place; a parsed
\* document without "_id" reaches the driver as parsed.
C6_OnlyIdentifierChanges ==
    (op \in RetrieveOps /\ connected /\ InputDoc.ok /\ InputDoc.val.tag = "dict") =>
        /\ (HasIdKey(InputDoc.val) /\ WellFormedToken(IdOf(InputDoc.val)))
               => /\ driver.called
                  /\ driver.filter =
                        DictVal([i \in DOMAIN InputDoc.val.items |->
                                   IF PKey(InputDoc.val.items[i]) = IdKey
                                   THEN PairVal(IdKey, DocumentId(IdOf(InputDoc.val)))
                                   ELSE InputDoc.val.items[i]])
        /\ ~HasIdKey(InputDoc.val)
               => (driver.called /\ driver.filter = InputDoc.val)

\* C6 witness: a retrieve handed the driver a two-key document whose "_id"
\* was normalized
C6_Witness ==
    /\ op = "retrieve_some_mongodb_records"
    /\ driver.called
    /\ Len(driver.filter.items) = 2
    /\ HasIdKey(driver.filter)
    /\ IdOf(driver.filter) = OidVal(Hex24)
    /\ \E i \in DOMAIN driver.filter.items : driver.filter.items[i] \in Range(InputDoc.val.items)

DesiredOp == "retrieve_mongodb_records_with_desired_fields"
ConfigError == "Exception: Not a boolean value for return__id"
FirstName == <<"f","i","r","s","t","N","a","m","e">>
WhiteSpace == {" ", "\t"}

\* s without its leading and trailing white space
RECURSIVE Strip(_)
Strip(s) ==
    IF Len(s) = 0 THEN s
    ELSE IF Head(s) \in WhiteSpace THEN Strip(Tail(s))
    ELSE IF s[Len(s)] \in WhiteSpace THEN Strip(SubSeq(s, 1, Len(s) - 1))
    ELSE s

\* the paths listed in the fields argument, as written between the commas
WrittenPaths == SplitComma(fields.s, <<>>)
ListedPaths == [i \in DOMAIN WrittenPaths |-> Strip(WrittenPaths[i])]

RECURSIVE Distinct(_, _)
Distinct(q, seen) ==
    IF Len(q) = 0 THEN <<>>
    ELSE IF Head(q) \in seen THEN Distinct(Tail(q), seen)
    ELSE <<Head(q)>> \o Distinct(Tail(q), seen \cup {Head(q)})

KeysOf(d) == [i \in DOMAIN d.items |-> PKey(d.items[i]).s]

\* C7: the documented usage  ... | {} | firstName | 0 |  excludes the
\* identifier: the projection handed to the driver has "_id" set to false.
C7_ZeroExcludesIdentifier ==
    (op = DesiredOp /\ connected /\ recordJSON = EmptyDoc /\ fields = StrVal(FirstName)
     /\ return__id = StrVal(<<"0">>))
        => /\ driver.called
           /\ HasIdKey(driver.projection)
           /\ IdOf(driver.projection) = BoolVal(FALSE)

\* the boolean the identifier flag stands for
FlagMeaning(flag) ==
    IF flag.tag = "bool" THEN flag
    ELSE IF flag.s \in FalseTokens THEN BoolVal(FALSE)
    ELSE BoolVal(TRUE)

C9_ProjectionShape ==
    (op = DesiredOp /\ connected /\ recordJSON = EmptyDoc) =>
        /\ driver.called
        /\ IF Len(fields.s) > 0
           THEN /\ driver.projection.tag = "dict"
                /\ KeysOf(driver.projection) = Distinct(ListedPaths, {}) \o <<IdKey.s>>
                /\ \A i \in 1..(Len(driver.projection.items) - 1) :
                       PValue(driver.projection.items[i]) = BoolVal(TRUE)
           ELSE driver.projection = Absent

\* C10: each key of the projection is the corresponding written path with
\* its surrounding white space, and only that, removed.
C10_SurroundingWhitespace ==
    (op = DesiredOp /\ connected /\ recordJSON = EmptyDoc /\ Len(fields.s) > 0) =>
        /\ driver.called
        /\ Range(KeysOf(driver.projection)) \ {IdKey.s} = Range(ListedPaths) \ {IdKey.s}

(***************************************************************************)
(* Result serialization                                                    *)
(***************************************************************************)
AllRetrieveOps == RetrieveOps \cup {"retrieve_all_mongodb_records"}

\* the renderings of the documents, one after the other, nothing between
RenderedPairs(docs) == JoinSeqs([i \in DOMAIN docs |-> ItemsRepr(docs[i])], <<>>)

\* C11: a retrieve keyword that called find iterates the cursor exactly once,
\* to its end; with returnDocuments true it returns the documents the cursor
\* yielded, same elements in the same order; with returnDocuments false it
\* returns one string, the renderings of the documents' key/value pairs in
\* iteration order with nothing between, before or after them, which is the
\* empty string when no document is yielded; any other value of
\* returnDocuments selects one of these two forms.
C11_ResultSerialization ==
    (op \in AllRetrieveOps /\ driver.called) =>
        /\ result.kind = "return"
        /\ cursor = [docs |-> records, pos |-> Len(records), passes |-> 1]
        /\ returnDocuments = BoolVal(TRUE) => result.val = ListVal(records)
        /\ returnDocuments = BoolVal(FALSE) => result.val = StrVal(RenderedPairs(records))
        /\ result.val \in {ListVal(records), StrVal(RenderedPairs(records))}
        /\ (result.val.tag = "str" /\ records = <<>>) => result.val.s = <<>>

\* C11 witness: raw mode rendered two different documents into one string
C11_Witness ==
    /\ op = "retrieve_some_mongodb_records"
    /\ driver.called
    /\ returnDocuments = BoolVal(FALSE)
    /\ Len(records) = 2
    /\ records[1] # records[2]
    /\ result.val.tag = "str"
    /\ result.val.s = ItemsRepr(records[1]) \o ItemsRepr(records[2])
    /\ cursor.passes = 1

(***************************************************************************)
(* Letter case of the literals and quote style                             *)
(***************************************************************************)
LiteralWords == {T_true, T_false, T_null}

\* two tokens that are the same but for the letter case of a literal or the
\* quote character of a string
SameToken(t, u) ==
    /\ t.k = u.k
    /\ IF t.k = "str" THEN t.s = u.s /\ t.p = u.p /\ (t.q = "triple") = (u.q = "triple")
       ELSE IF t.k = "name"
            THEN t.s = u.s \/ (StrLower(t.s) = StrLower(u.s) /\ StrLower(t.s) \in LiteralWords)
            ELSE t = u

SameTokens(ts, us) ==
    /\ Len(ts) = Len(us)
    /\ \A i \in DOMAIN ts : SameToken(ts[i], us[i])

\* the texts a and b differ only in the letter case of the literals
\* true/false/null and in the quote characters around strings and keys
SameButCaseAndQuotes(a, b) ==
    /\ Len(a) = Len(b)
    /\ \A i \in DOMAIN a :
           \/ a[i] = b[i]
           \/ {a[i], b[i]} \subseteq QuoteChars
           \/ LowerChar(a[i]) = LowerChar(b[i])
    /\ SameTokens(Tokens(a, 1), Tokens(b, 1))

\* C12: a text that differs from the parsed one only in the letter case of
\* the literals true/false/null and in the quote style of strings and keys
\* parses to the same outcome: the same value, or a failure as well.
C12_CaseAndQuoteStyle ==
    (op = ParseOp) =>
        \A t \in PlainTexts \cup IdTexts :
            SameButCaseAndQuotes(recordJSON, t) => pythonish_to_json_dict(t) = result

\* C12 witness: the Python-style text was parsed to the value of the
\* JSON-style one, an Object of a Bool, a Null and a Bool
C12_Witness ==
    /\ op = ParseOp
    /\ recordJSON = PythonStyleText
    /\ SameButCaseAndQuotes(recordJSON, JsonStyleText)
    /\ result = pythonish_to_json_dict(JsonStyleText)
    /\ result = Returned(DictVal(<<PairVal(StrVal(<<"a">>), BoolVal(TRUE)),
                                   PairVal(StrVal(<<"b">>), NoneVal),
                                   PairVal(StrVal(<<"c">>), BoolVal(FALSE))>>))

====
